---------------------------- MODULE Spec2Model ----------------------------
(***************************************************************************)
(* Sleeper-Waiver-Wizard: the scoring manager, the player scorer, the      *)
(* league analyzer, the waiver recommender and the cache of the Sleeper    *)
(* client as state machines.                                               *)
(*                                                                         *)
(* Numbers.  Python floats are modelled as exact decimals held in          *)
(* integers: scoring coefficients and raw point sums in thousandths of a   *)
(* point ("milli"), every value the code passes through round(x, 2) in     *)
(* hundredths ("cents"), and round(x, 2) as round-half-to-even on the      *)
(* exact value.  Binary floating-point representation error is not         *)
(* modelled.                                                               *)
(***************************************************************************)
EXTENDS Integers, Sequences, FiniteSets, TLC

VARIABLES
    \* ---- ScoringManager (src/src/scoring_manager.py)
    presets,          \* self.presets: preset name -> [description, settings]
    customFile,       \* the file ./.env.scoring.json: [exists, text]
    lastSaved,        \* history: the table given to the latest save_custom_scoring
    ret,              \* the latest call on the manager and what it returned
    \* ---- PlayerScorer (src/src/player_scorer.py)
    scoring_settings, \* self.scoring_settings
    candidates,       \* argument: list of candidate records
    weekly_stats,     \* argument: list of weekly snapshots, player id -> stat record
    projections,      \* argument: projection snapshot, player id -> stat record
    trending_data,    \* argument: ids on the trending list
    scored,           \* what score_waiver_candidates returned (or raised)
    scorerRet,        \* the latest direct call of calculate_fantasy_points or
                      \* analyze_player_performance and what it returned
    \* ---- LeagueAnalyzer / WaiverRecommender
    all_players,      \* self.all_players: player id -> [position]
    roster_by_user,   \* self.roster_by_user: user id -> [players]
    user_id,          \* argument
    scored_players,   \* argument: the scored frame, a list of rows
    top_n,            \* argument
    position_filter,  \* argument
    needsRet,         \* what analyze_roster_needs returned
    recommendations,  \* what generate_recommendations returned (or raised)
    \* ---- SleeperClient (src/src/sleeper_client.py)
    now,              \* datetime.now(), in minutes
    advances,         \* history: how often the clock was advanced
    cache,            \* self.cache: cache key -> [data, timestamp]
    cacheRet          \* the latest call on the client and what it returned

mgrVars    == <<presets, customFile, lastSaved, ret>>
scorerVars == <<scoring_settings, candidates, weekly_stats, projections,
                trending_data, scored, scorerRet>>
rankVars   == <<all_players, roster_by_user, user_id, scored_players, top_n,
                position_filter, needsRet, recommendations>>
cacheVars  == <<now, advances, cache, cacheRet>>
vars       == <<mgrVars, scorerVars, rankVars, cacheVars>>

(***************************************************************************)
(* Generic helpers                                                         *)
(***************************************************************************)
None == "None"

EmptyDict == [k \in {} |-> 0]

\* dict.get(key, default)
Get(d, k, default) == IF k \in DOMAIN d THEN d[k] ELSE default

Abs(x) == IF x < 0 THEN -x ELSE x

Min(a, b) == IF a < b THEN a ELSE b

\* round(num/den, .) to the nearest integer, ties to even (den > 0)
RoundHalfEven(num, den) ==
    LET q == num \div den
        r == num - q * den
    IN  IF 2 * r < den THEN q
        ELSE IF 2 * r > den THEN q + 1
        ELSE IF q % 2 = 0 THEN q ELSE q + 1

RECURSIVE SumSeq(_)
SumSeq(s) == IF s = <<>> THEN 0 ELSE s[1] + SumSeq(Tail(s))

(***************************************************************************)
(* Scoring tables.  Coefficients are in thousandths of a point.            *)
(***************************************************************************)
\* stat_mappings, in the order of the dict literal
stat_mappings ==
    << <<"pass_yd", "pts_pass_yd">>, <<"pass_td", "pts_pass_td">>,
       <<"pass_int", "pts_pass_int">>, <<"rush_yd", "pts_rush_yd">>,
       <<"rush_td", "pts_rush_td">>, <<"rec", "pts_rec">>,
       <<"rec_yd", "pts_rec_yd">>, <<"rec_td", "pts_rec_td">>,
       <<"fum_lost", "pts_fum_lost">>, <<"pass_2pt", "pts_pass_2pt">>,
       <<"rush_2pt", "pts_rush_2pt">>, <<"rec_2pt", "pts_rec_2pt">> >>

ScoringKeys == {stat_mappings[i][2] : i \in 1..Len(stat_mappings)}

\* the "settings" of the built-in standard preset
StandardSettings ==
    [k \in ScoringKeys |->
        CASE k = "pts_pass_yd"  -> 40
          [] k = "pts_pass_td"  -> 4000
          [] k = "pts_pass_int" -> -2000
          [] k = "pts_rush_yd"  -> 100
          [] k = "pts_rush_td"  -> 6000
          [] k = "pts_rec"      -> 0
          [] k = "pts_rec_yd"   -> 100
          [] k = "pts_rec_td"   -> 6000
          [] k = "pts_fum_lost" -> -2000
          [] OTHER              -> 2000]

\* the "settings" of the built-in ppr preset: standard but for pts_rec
PprSettings == [StandardSettings EXCEPT !["pts_rec"] = 1000]

get_default_presets ==
    [n \in {"standard", "ppr"} |->
        IF n = "standard"
        THEN [description |-> "Traditional fantasy football scoring without PPR",
              settings |-> StandardSettings]
        ELSE [description |-> "Full point per reception scoring",
              settings |-> PprSettings]]


\* keys of a table in the order json.dump writes them
KeyOrder == [i \in 1..Len(stat_mappings) |-> stat_mappings[i][2]]

(***************************************************************************)
(* Inputs of the scoring manager                                           *)
(***************************************************************************)
\* contents a ./config/scoring_settings.json may have ("presets" section)
HalfPprSettings == [StandardSettings EXCEPT !["pts_rec"] = 500]

SuperflexSettings == [PprSettings EXCEPT !["pts_pass_td"] = 6000]

ConfigPresetsFull ==
    [n \in {"standard", "ppr", "half_ppr", "superflex"} |->
        [description |-> n,
         settings |-> CASE n = "standard" -> StandardSettings
                        [] n = "ppr"      -> PprSettings
                        [] n = "half_ppr" -> HalfPprSettings
                        [] OTHER          -> SuperflexSettings]]

\* a config file that defines only a six-point-passing-TD "ppr" preset
ConfigPresetsPprOnly ==
    [n \in {"ppr"} |-> [description |-> n, settings |-> SuperflexSettings]]

ConfigFiles ==
    { [exists |-> FALSE, presets |-> EmptyDict],
      [exists |-> TRUE,  presets |-> ConfigPresetsFull],
      [exists |-> TRUE,  presets |-> ConfigPresetsPprOnly],
      [exists |-> TRUE,  presets |-> EmptyDict] }

\* league scoring tables as the Sleeper API may deliver them
LeaguePpr  == ("pts_rec" :> 1000) @@ ("pts_pass_td" :> 6000) @@ ("pts_rec_yd" :> 100)
LeagueHalf == ("pts_rec" :> 500) @@ ("pts_pass_td" :> 6000) @@ ("pts_rec_yd" :> 100)
LeagueOdd  == ("pts_rec" :> 250) @@ ("pts_rec_yd" :> 125) @@ ("pts_rec_td" :> 6000)
                  @@ ("pts_pass_int" :> -1500)
LeagueNoRec == ("pts_pass_td" :> 4000) @@ ("pts_rec_yd" :> 100)

LeagueSettingsInputs == {EmptyDict, LeaguePpr, LeagueHalf, LeagueOdd, LeagueNoRec}

PresetNameInputs == {None, "standard", "ppr", "half_ppr", "bogus"}

\* stat records (stat key -> count)
StatsInt  == ("pass_int" :> 1)
StatsLow  == ("rec" :> 2) @@ ("rec_yd" :> 15)
StatsHigh == ("rec" :> 5) @@ ("rec_yd" :> 75) @@ ("rec_td" :> 1)
                 @@ ("rush_yd" :> 0) @@ ("rush_td" :> 0)

StatRecords == {StatsInt, StatsLow, StatsHigh}

(***************************************************************************)
(* json.dump / json.load of a scoring table.  A number is written as a     *)
(* sign, its integer part and its fraction digits without trailing zeros.  *)
(***************************************************************************)
FracDigits(m) ==
    IF m = 0 THEN <<>>
    ELSE IF m % 100 = 0 THEN <<m \div 100>>
    ELSE IF m % 10 = 0 THEN <<m \div 100, (m \div 10) % 10>>
    ELSE <<m \div 100, (m \div 10) % 10, m % 10>>

FormatNumber(v) ==
    [neg |-> v < 0, whole |-> Abs(v) \div 1000, frac |-> FracDigits(Abs(v) % 1000)]

ParseNumber(t) ==
    LET d(i) == IF i <= Len(t.frac) THEN t.frac[i] ELSE 0
        m    == t.whole * 1000 + d(1) * 100 + d(2) * 10 + d(3)
    IN  IF t.neg THEN -m ELSE m

json_dump(settings) ==
    LET keys == SelectSeq(KeyOrder, LAMBDA k : k \in DOMAIN settings)
    IN  [i \in 1..Len(keys) |-> <<keys[i], FormatNumber(settings[keys[i]])>>]

json_load(text) ==
    [k \in {text[i][1] : i \in 1..Len(text)} |->
        ParseNumber(text[CHOOSE i \in 1..Len(text) : text[i][1] = k][2])]

(***************************************************************************)
(* ScoringManager                                                          *)
(***************************************************************************)
NoFile == [exists |-> FALSE, text |-> <<>>]

\* no save_custom_scoring yet; "earlier": the save was made in an earlier run
NoSave == [saved |-> FALSE, earlier |-> FALSE, table |-> EmptyDict]

\* ScoringManager.load_scoring_config: self.presets after construction
load_scoring_config(cfg) ==
    IF cfg.exists THEN cfg.presets ELSE get_default_presets

\* the league-detection and default steps of get_scoring_settings
ResolveLeagueOrDefault(prs, league_settings, use_league_settings) ==
    IF use_league_settings /\ league_settings # EmptyDict
    THEN LET pts_rec == Get(league_settings, "pts_rec", 0)
         IN  IF pts_rec = 1000
             THEN IF "ppr" \in DOMAIN prs
                  THEN prs["ppr"].settings ELSE league_settings
             ELSE IF pts_rec = 500
             THEN IF "half_ppr" \in DOMAIN prs
                  THEN prs["half_ppr"].settings ELSE league_settings
             ELSE league_settings
    ELSE IF "standard" \in DOMAIN prs
    THEN prs["standard"].settings ELSE EmptyDict

\* faulty variant of ResolveScoring: the named preset is looked up before the
\* custom scoring file
ResolveScoring_PresetFirst(file, prs, preset_name, league_settings, use_league_settings) ==
    IF preset_name # None /\ preset_name \in DOMAIN prs
    THEN prs[preset_name].settings
    ELSE IF file.exists
    THEN json_load(file.text)
    ELSE ResolveLeagueOrDefault(prs, league_settings, use_league_settings)

\* faulty variant of ResolveScoring: the league settings are inspected whatever
\* use_league_settings says
ResolveScoring_IgnoreFlag(file, prs, preset_name, league_settings, use_league_settings) ==
    IF file.exists
    THEN json_load(file.text)
    ELSE IF preset_name # None /\ preset_name \in DOMAIN prs
    THEN prs[preset_name].settings
    ELSE ResolveLeagueOrDefault(prs, league_settings, TRUE)

\* the table ScoringManager.get_scoring_settings returns
ResolveScoring(file, prs, preset_name, league_settings, use_league_settings) ==
    IF file.exists
    THEN json_load(file.text)
    ELSE IF preset_name # None /\ preset_name \in DOMAIN prs
    THEN prs[preset_name].settings
    ELSE ResolveLeagueOrDefault(prs, league_settings, use_league_settings)

\* ScoringManager._calculate_points, in thousandths of a point
calculate_points(stats, settings) ==
    SumSeq([i \in 1..Len(stat_mappings) |->
              IF stat_mappings[i][1] \in DOMAIN stats
                 /\ stat_mappings[i][2] \in DOMAIN settings
              THEN stats[stat_mappings[i][1]] * settings[stat_mappings[i][2]]
              ELSE 0])

\* faulty variant of CompareResult: difference is taken the other way round
CompareResult_Reversed(prs, stats, preset1, preset2) ==
    LET settings1 == IF preset1 \in DOMAIN prs THEN prs[preset1].settings ELSE EmptyDict
        settings2 == IF preset2 \in DOMAIN prs THEN prs[preset2].settings ELSE EmptyDict
        score1 == calculate_points(stats, settings1)
        score2 == calculate_points(stats, settings2)
    IN  ("difference" :> RoundHalfEven(score1 - score2, 10))
          @@ (preset2 :> RoundHalfEven(score2, 10))
          @@ (preset1 :> RoundHalfEven(score1, 10))

\* the dict ScoringManager.compare_scoring returns, values in cents
CompareResult(prs, stats, preset1, preset2) ==
    LET settings1 == IF preset1 \in DOMAIN prs THEN prs[preset1].settings ELSE EmptyDict
        settings2 == IF preset2 \in DOMAIN prs THEN prs[preset2].settings ELSE EmptyDict
        score1 == calculate_points(stats, settings1)
        score2 == calculate_points(stats, settings2)
    IN  ("difference" :> RoundHalfEven(score2 - score1, 10))
          @@ (preset2 :> RoundHalfEven(score2, 10))
          @@ (preset1 :> RoundHalfEven(score1, 10))

\* ScoringManager(): a run of the program starts; the file system is kept
Construct(cfg) ==
    /\ presets' = load_scoring_config(cfg)
    /\ ret' = [op |-> "__init__", args |-> <<>>, raised |-> None, value |-> None]
    /\ lastSaved' = [lastSaved EXCEPT !.earlier = lastSaved.saved]
    /\ UNCHANGED customFile

\* faulty variant of get_scoring_settings: resolving also writes the resolved
\* table to the custom scoring file
get_scoring_settings_autosave(preset_name, league_settings, use_league_settings) ==
    LET value == ResolveScoring(customFile, presets, preset_name,
                                league_settings, use_league_settings)
    IN  /\ ret' = [op |-> "get_scoring_settings",
                   args |-> [preset_name |-> preset_name,
                             league_settings |-> league_settings,
                             use_league_settings |-> use_league_settings],
                   raised |-> None,
                   value |-> value]
        /\ customFile' = [exists |-> TRUE, text |-> json_dump(value)]
        /\ UNCHANGED <<presets, lastSaved>>

get_scoring_settings(preset_name, league_settings, use_league_settings) ==
    /\ ret' = [op |-> "get_scoring_settings",
               args |-> [preset_name |-> preset_name,
                         league_settings |-> league_settings,
                         use_league_settings |-> use_league_settings],
               raised |-> None,
               value |-> ResolveScoring(customFile, presets, preset_name,
                                        league_settings, use_league_settings)]
    /\ UNCHANGED <<presets, customFile, lastSaved>>

save_custom_scoring(settings) ==
    /\ customFile' = [exists |-> TRUE, text |-> json_dump(settings)]
    /\ lastSaved' = [saved |-> TRUE, earlier |-> FALSE, table |-> settings]
    /\ ret' = [op |-> "save_custom_scoring", args |-> <<settings>>,
               raised |-> None, value |-> None]
    /\ UNCHANGED presets

list_presets ==
    /\ ret' = [op |-> "list_presets", args |-> <<>>, raised |-> None,
               value |-> [n \in DOMAIN presets |-> presets[n].description]]
    /\ UNCHANGED <<presets, customFile, lastSaved>>

get_preset_details(preset_name) ==
    /\ ret' = [op |-> "get_preset_details", args |-> <<preset_name>>,
               raised |-> None,
               value |-> IF preset_name \in DOMAIN presets
                         THEN presets[preset_name] ELSE None]
    /\ UNCHANGED <<presets, customFile, lastSaved>>

compare_scoring(stats, preset1, preset2) ==
    /\ ret' = [op |-> "compare_scoring", args |-> <<stats, preset1, preset2>>,
               raised |-> None,
               value |-> CompareResult(presets, stats, preset1, preset2)]
    /\ UNCHANGED <<presets, customFile, lastSaved>>

\* tables handed to save_custom_scoring besides the one just resolved (main.py)
SaveInputs == {LeagueOdd, PprSettings, EmptyDict}

(***************************************************************************)
(* Values of the variables a specification does not use                    *)
(***************************************************************************)
NotCalled == [status |-> "not called"]

ManagerIdle ==
    /\ presets = EmptyDict
    /\ customFile = NoFile
    /\ lastSaved = NoSave
    /\ ret = [op |-> "__init__", args |-> <<>>, raised |-> None, value |-> None]

ScorerIdle ==
    /\ scoring_settings = EmptyDict
    /\ candidates = <<>>
    /\ weekly_stats = <<>>
    /\ projections = EmptyDict
    /\ trending_data = {}
    /\ scored = NotCalled
    /\ scorerRet = NotCalled

RankIdle ==
    /\ all_players = EmptyDict
    /\ roster_by_user = EmptyDict
    /\ user_id = None
    /\ scored_players = <<>>
    /\ top_n = 0
    /\ position_filter = None
    /\ needsRet = NotCalled
    /\ recommendations = NotCalled

CacheIdle ==
    /\ now = 0
    /\ advances = 0
    /\ cache = EmptyDict
    /\ cacheRet = NotCalled

(***************************************************************************)
(* Specification of the scoring manager: runs of the program over one      *)
(* working directory.                                                      *)
(***************************************************************************)
InitScoring ==
    /\ \E cfg \in ConfigFiles : presets = load_scoring_config(cfg)
    /\ customFile = NoFile
    /\ lastSaved = NoSave
    /\ ret = [op |-> "__init__", args |-> <<>>, raised |-> None, value |-> None]
    /\ ScorerIdle
    /\ RankIdle
    /\ CacheIdle

NextScoring ==
    /\ UNCHANGED <<scorerVars, rankVars, cacheVars>>
    /\ \/ \E cfg \in ConfigFiles : Construct(cfg)
       \/ \E p \in PresetNameInputs, l \in LeagueSettingsInputs, u \in BOOLEAN :
              get_scoring_settings(p, l, u)
       \/ \E s \in SaveInputs : save_custom_scoring(s)
       \/ /\ ret.op = "get_scoring_settings"
          /\ save_custom_scoring(ret.value)
       \/ list_presets
       \/ \E p \in PresetNameInputs \ {None} : get_preset_details(p)
       \/ \E st \in StatRecords, p1 \in {"standard", "ppr", "bogus"},
             p2 \in {"ppr", "standard"} :
              p1 # p2 /\ compare_scoring(st, p1, p2)

SpecScoring == InitScoring /\ [][NextScoring]_vars

(***************************************************************************)
(* Claims about the scoring manager (checked under SpecScoring)            *)
(***************************************************************************)
IsGet == ret.op = "get_scoring_settings"

GetOps == {"get_scoring_settings", "list_presets", "get_preset_details",
           "compare_scoring"}

\* value is the settings table of the loaded preset called name
IsPreset(value, name) == name \in DOMAIN presets /\ value = presets[name].settings

\* value is the table of preset name when it is loaded, else fallback
IsPresetOr(value, name, fallback) ==
    IF name \in DOMAIN presets THEN value = presets[name].settings
    ELSE value = fallback

\* C1: get_scoring_settings with a preset_name that is not a loaded preset, and
\* no saved custom override, reports an input error to the caller instead of
\* returning some other table.
C1_UnknownPresetIsError ==
    (/\ IsGet
     /\ ~customFile.exists
     /\ ret.args.preset_name # None
     /\ ret.args.preset_name \notin DOMAIN presets)
    => ret.raised # None

\* C2 as stated: the table is resolved by the first matching rule of (a) saved
\* override, (b) known named preset, (c) with use_league_settings and non-empty
\* league settings: the PPR preset when pts_rec = 1, the half-PPR preset when
\* pts_rec = 0.5, else the league settings, (d) the standard preset.
C2_ResolutionOrderAsStated ==
    IsGet =>
        LET a == ret.args
            v == ret.value
        IN  IF lastSaved.saved THEN v = lastSaved.table
            ELSE IF a.preset_name # None /\ a.preset_name \in DOMAIN presets
            THEN v = presets[a.preset_name].settings
            ELSE IF a.use_league_settings /\ a.league_settings # EmptyDict
            THEN IF Get(a.league_settings, "pts_rec", 0) = 1000
                 THEN IsPreset(v, "ppr")
                 ELSE IF Get(a.league_settings, "pts_rec", 0) = 500
                 THEN IsPreset(v, "half_ppr")
                 ELSE v = a.league_settings
            ELSE IsPreset(v, "standard")

\* C2 amended: the same order, but in (c) the ppr / half_ppr preset is returned
\* only when a preset of that name is loaded, otherwise the league settings are
\* returned unchanged, and in (d) the standard preset is returned when loaded,
\* otherwise the empty table.
C2_ResolutionOrder ==
    IsGet =>
        LET a == ret.args
            v == ret.value
        IN  IF lastSaved.saved THEN v = lastSaved.table
            ELSE IF a.preset_name # None /\ a.preset_name \in DOMAIN presets
            THEN v = presets[a.preset_name].settings
            ELSE IF a.use_league_settings /\ a.league_settings # EmptyDict
            THEN IF Get(a.league_settings, "pts_rec", 0) = 1000
                 THEN IsPresetOr(v, "ppr", a.league_settings)
                 ELSE IF Get(a.league_settings, "pts_rec", 0) = 500
                 THEN IsPresetOr(v, "half_ppr", a.league_settings)
                 ELSE v = a.league_settings
            ELSE IsPresetOr(v, "standard", EmptyDict)

\* a half-PPR league resolved while no half_ppr preset is loaded
C2_Witness ==
    /\ IsGet
    /\ ~lastSaved.saved
    /\ ret.args.preset_name = None
    /\ ret.args.use_league_settings
    /\ ret.args.league_settings = LeagueHalf
    /\ "half_ppr" \notin DOMAIN presets
    /\ ret.value = LeagueHalf

\* C3: once save_custom_scoring(S) was called, every later get_scoring_settings,
\* in this run or a later one and whatever its arguments, returns a table equal
\* to S, until the next save_custom_scoring.
C3_SavedOverrideWins ==
    (IsGet /\ lastSaved.saved) => ret.value = lastSaved.table

\* a later run asks for a known preset, with league settings, after a save of
\* another table
C3_Witness ==
    /\ IsGet
    /\ lastSaved.saved
    /\ lastSaved.earlier
    /\ ret.args.preset_name \in DOMAIN presets
    /\ ret.args.use_league_settings
    /\ ret.args.league_settings = LeaguePpr
    /\ lastSaved.table = LeagueOdd
    /\ ret.value = LeagueOdd

\* C4: get_scoring_settings, list_presets, get_preset_details and
\* compare_scoring leave the custom scoring file and the loaded presets as they
\* were; the file changes only in a save_custom_scoring call.
C4_ResolveDoesNotPersist ==
    [][/\ ret'.op \in GetOps => (customFile' = customFile /\ presets' = presets)
       /\ customFile' # customFile => ret'.op = "save_custom_scoring"]_vars

\* a table was resolved from league settings and there is still no file
C4_Witness ==
    /\ IsGet
    /\ ret.args.league_settings = LeagueOdd
    /\ ret.value = LeagueOdd
    /\ customFile = NoFile

\* the points, in thousandths, of a stat record under the table of a loaded
\* preset; an unknown preset has the empty table
PresetPoints(stats, preset) ==
    LET settings == IF preset \in DOMAIN presets
                    THEN presets[preset].settings ELSE EmptyDict
        both == {i \in 1..Len(stat_mappings) :
                    /\ stat_mappings[i][1] \in DOMAIN stats
                    /\ stat_mappings[i][2] \in DOMAIN settings}
    IN  SumSeq([i \in 1..Len(stat_mappings) |->
                  IF i \in both
                  THEN stats[stat_mappings[i][1]] * settings[stat_mappings[i][2]]
                  ELSE 0])

\* C15: compare_scoring(stats, p1, p2) returns the points of stats under p1,
\* the points under p2 and difference = points(p2) - points(p1); the built-in
\* standard and ppr presets differ only in pts_rec (0 and 1), so between them
\* the difference is the number of receptions (5 rec, 75 rec_yd, 1 rec_td:
\* 13.5, 18.5 and 5.0).
C15_CompareScoring ==
    ret.op = "compare_scoring" =>
        LET stats == ret.args[1]
            p1 == ret.args[2]
            p2 == ret.args[3]
        IN  /\ ret.raised = None
            /\ ret.value[p1] = RoundHalfEven(PresetPoints(stats, p1), 10)
            /\ ret.value[p2] = RoundHalfEven(PresetPoints(stats, p2), 10)
            /\ ret.value["difference"]
                   = RoundHalfEven(PresetPoints(stats, p2) - PresetPoints(stats, p1), 10)
            /\ ret.value["difference"] = ret.value[p2] - ret.value[p1]
            /\ presets = get_default_presets =>
                   /\ \A k \in ScoringKeys \ {"pts_rec"} :
                          presets["standard"].settings[k] = presets["ppr"].settings[k]
                   /\ presets["standard"].settings["pts_rec"] = 0
                   /\ presets["ppr"].settings["pts_rec"] = 1000
                   /\ (p1 = "standard" /\ p2 = "ppr") =>
                          ret.value["difference"] = 100 * Get(stats, "rec", 0)
                   /\ (p1 = "standard" /\ p2 = "ppr"
                         /\ stats = ("rec" :> 5) @@ ("rec_yd" :> 75) @@ ("rec_td" :> 1)
                                       @@ ("rush_yd" :> 0) @@ ("rush_td" :> 0)) =>
                          /\ ret.value["standard"] = 1350
                          /\ ret.value["ppr"] = 1850
                          /\ ret.value["difference"] = 500

\* the comparison of test_scoring.py, run without a config file
C15_Witness ==
    /\ ret.op = "compare_scoring"
    /\ presets = get_default_presets
    /\ ret.args = <<StatsHigh, "standard", "ppr">>
    /\ ret.value["standard"] = 1350
    /\ ret.value["ppr"] = 1850
    /\ ret.value["difference"] = 500

(***************************************************************************)
(* PlayerScorer.  Point values, averages, consistency, trend and           *)
(* waiver_score are in cents; score components in 1/10000 of a point.      *)
(***************************************************************************)
\* PlayerScorer.default_weights, in percent
default_weights ==
    [recent_performance |-> 35, season_average |-> 20, projections |-> 25,
     consistency |-> 10, trending |-> 10]

\* faulty variant of FantasyPointsSum: a stat whose coefficient is missing
\* from the scoring table counts one point each
FantasyPointsSum_DefaultOne(settings, stats) ==
    SumSeq([i \in 1..Len(stat_mappings) |->
              IF stat_mappings[i][1] \in DOMAIN stats
              THEN stats[stat_mappings[i][1]]
                     * Get(settings, stat_mappings[i][2], 1000)
              ELSE 0])

\* points at the end of the loop of calculate_fantasy_points, in thousandths
FantasyPointsSum(settings, stats) ==
    SumSeq([i \in 1..Len(stat_mappings) |->
              IF stat_mappings[i][1] \in DOMAIN stats
                 /\ stat_mappings[i][2] \in DOMAIN settings
              THEN stats[stat_mappings[i][1]] * settings[stat_mappings[i][2]]
              ELSE 0])

\* PlayerScorer.calculate_fantasy_points: round(points, 2)
calculate_fantasy_points(settings, stats) ==
    RoundHalfEven(FantasyPointsSum(settings, stats), 10)

\* the largest r in lo..hi with r * r <= n
RECURSIVE ISqrtIn(_, _, _)
ISqrtIn(n, lo, hi) ==
    IF lo >= hi THEN lo
    ELSE LET mid == (lo + hi + 1) \div 2
         IN  IF mid * mid <= n THEN ISqrtIn(n, mid, hi) ELSE ISqrtIn(n, lo, mid - 1)

ISqrt(n) == ISqrtIn(n, 0, Min(n, 46340))

\* the sign of m - 200 * sqrt(d), for m, d >= 0, without forming m * m
CmpScaledSqrt(m, d) ==
    LET s == ISqrt(d)
        a == m \div 200
        b == m % 200
        lhs == 400 * a * b + b * b
        rhs == 40000 * (d - a * a)
    IN  IF a > s THEN 1
        ELSE IF a < s THEN -1
        ELSE IF lhs < rhs THEN -1 ELSE IF lhs > rhs THEN 1 ELSE 0

\* faulty variant of PointsHistory: a snapshot without the player adds a 0
PointsHistory_ZeroFill(settings, player_id, weekly) ==
    [i \in 1..Len(weekly) |->
        IF player_id \in DOMAIN weekly[i]
        THEN calculate_fantasy_points(settings, weekly[i][player_id]) ELSE 0]

\* points_history of analyze_player_performance
PointsHistory(settings, player_id, weekly) ==
    LET played == SelectSeq(weekly, LAMBDA week_stats : player_id \in DOMAIN week_stats)
    IN  [i \in 1..Len(played) |-> calculate_fantasy_points(settings, played[i][player_id])]

\* round(np.mean(h), 2)
MeanCents(h) == RoundHalfEven(SumSeq(h), Len(h))

\* round(1 - np.std(h) / (np.mean(h) + 1), 2) if np.mean(h) > 0 else 0
ConsistencyCents(h) ==
    LET n == Len(h)
        S == SumSeq(h)
        Q == SumSeq([i \in 1..n |-> h[i] * h[i]])
        D == n * Q - S * S              \* (100 n std)^2
        T == S + 100 * n                \* 100 n (mean + 1)
        f0 == (100 * ISqrt(D)) \div T
        \* f = floor(100 std / (mean + 1))
        f == CHOOSE k \in f0..(f0 + 2) :
                 /\ CmpScaledSqrt(2 * k * T, D) <= 0
                 /\ CmpScaledSqrt(2 * (k + 1) * T, D) > 0
        half == CmpScaledSqrt((2 * f + 1) * T, D)
    IN  IF S <= 0 THEN 0
        ELSE IF half > 0 THEN 100 - f
        ELSE IF half < 0 THEN 100 - f - 1
        ELSE IF (100 - f) % 2 = 0 THEN 100 - f ELSE 100 - f - 1

\* round(np.polyfit(arange(n), h, 1)[0], 2): the least-squares slope
SlopeCents(h) ==
    LET n == Len(h)
        Sx == SumSeq([i \in 1..n |-> i - 1])
        Sxx == SumSeq([i \in 1..n |-> (i - 1) * (i - 1)])
        Sy == SumSeq(h)
        Sxy == SumSeq([i \in 1..n |-> (i - 1) * h[i]])
    IN  RoundHalfEven(n * Sxy - Sx * Sy, n * Sxx - Sx * Sx)

\* the profile returned when there is nothing to average
ZeroProfile(player_id) ==
    [player_id |-> player_id, avg_points |-> 0, recent_avg |-> 0, projected |-> 0,
     consistency |-> 0, trend |-> 0, games_played |-> 0]

\* faulty variant of RecentGames: the first games for the last ones
RecentGames_Head(points_history) ==
    SubSeq(points_history, 1, Min(3, Len(points_history)))

\* points_history[-recent_games:] with recent_games = min(3, len(points_history))
RecentGames(points_history) ==
    LET n == Len(points_history)
        recent_games == Min(3, n)
    IN  SubSeq(points_history, n - recent_games + 1, n)

\* faulty variant of Trend: a line is fitted through two points already
Trend_FromTwo(points_history) ==
    IF Len(points_history) >= 2 THEN SlopeCents(points_history) ELSE 0

\* trend: the fitted slope from three entries on, else 0
Trend(points_history) ==
    IF Len(points_history) >= 3 THEN SlopeCents(points_history) ELSE 0

\* projected_points of analyze_player_performance
ProjectedPoints(settings, player_id, proj) ==
    IF proj # EmptyDict /\ player_id \in DOMAIN proj
    THEN calculate_fantasy_points(settings, proj[player_id])
    ELSE 0

\* faulty variant of analyze_player_performance: the projection is looked up
\* before the empty history is returned
analyze_player_performance_ProjectFirst(settings, player_id, weekly, proj) ==
    LET points_history == PointsHistory(settings, player_id, weekly)
    IN  IF points_history = <<>>
        THEN [ZeroProfile(player_id) EXCEPT
                  !.projected = ProjectedPoints(settings, player_id, proj)]
        ELSE [player_id |-> player_id,
              avg_points |-> MeanCents(points_history),
              recent_avg |-> MeanCents(RecentGames(points_history)),
              projected |-> ProjectedPoints(settings, player_id, proj),
              consistency |-> ConsistencyCents(points_history),
              trend |-> Trend(points_history),
              games_played |-> Len(points_history),
              points_history |-> points_history]

\* PlayerScorer.analyze_player_performance
analyze_player_performance(settings, player_id, weekly, proj) ==
    LET points_history == PointsHistory(settings, player_id, weekly)
    IN  IF weekly = <<>> THEN ZeroProfile(player_id)
        ELSE IF points_history = <<>> THEN ZeroProfile(player_id)
        ELSE [player_id |-> player_id,
              avg_points |-> MeanCents(points_history),
              recent_avg |-> MeanCents(RecentGames(points_history)),
              projected |-> ProjectedPoints(settings, player_id, proj),
              consistency |-> ConsistencyCents(points_history),
              trend |-> Trend(points_history),
              games_played |-> Len(points_history),
              points_history |-> points_history]

\* faulty variant of TrendMultiplier: the momentum bonus is not capped
TrendMultiplier_NoCap(trend) == IF trend > 0 THEN 1000 + trend ELSE 1000

\* the factor applied to waiver_score, in thousandths:
\* 1 + min(trend * 0.1, 0.3) when trend > 0, else 1
TrendMultiplier(trend) == IF trend > 0 THEN 1000 + Min(trend, 300) ELSE 1000

\* score_components of a candidate with games_played > 0, in 1/10000 point
ScoreComponents(performance, is_trending) ==
    [recent |-> performance.recent_avg * default_weights.recent_performance,
     average |-> performance.avg_points * default_weights.season_average,
     projected |-> performance.projected * default_weights.projections,
     consistency |-> performance.consistency * 10 * default_weights.consistency,
     trending |-> (IF is_trending THEN 1 ELSE 0) * 500 * default_weights.trending]

\* faulty variant of WaiverScore: the composite is computed without looking at
\* games_played
WaiverScore_NoGamesGuard(performance, is_trending) ==
    LET c == ScoreComponents(performance, is_trending)
        total == c.recent + c.average + c.projected + c.consistency + c.trending
    IN  RoundHalfEven(total * TrendMultiplier(performance.trend), 100000)

\* round(waiver_score, 2) as the candidate loop computes it
WaiverScore(performance, is_trending) ==
    LET c == ScoreComponents(performance, is_trending)
        total == c.recent + c.average + c.projected + c.consistency + c.trending
    IN  IF performance.games_played > 0
        THEN IF performance.trend > 0
             THEN RoundHalfEven(total * TrendMultiplier(performance.trend), 100000)
             ELSE RoundHalfEven(total, 100)
        ELSE 0

\* the dict appended to scored_players for one candidate; **score_components
\* comes last, so for games_played > 0 its "projected" and "consistency"
\* replace the profile's (projected then is in 1/10000 point)
ScoredRow(settings, candidate, weekly, proj, trending_players) ==
    LET player_id == candidate.player_id
        performance == analyze_player_performance(settings, player_id, weekly, proj)
        is_trending == player_id \in trending_players
        c == ScoreComponents(performance, is_trending)
        played == performance.games_played > 0
    IN  [player_id |-> player_id,
         position |-> candidate.position,
         waiver_score |-> WaiverScore(performance, is_trending),
         avg_points |-> performance.avg_points,
         recent_avg |-> performance.recent_avg,
         projected |-> IF played THEN c.projected ELSE performance.projected,
         consistency |-> IF played THEN c.consistency \div 100
                         ELSE performance.consistency,
         trend |-> performance.trend,
         games_played |-> performance.games_played,
         is_trending |-> is_trending,
         components |-> IF played THEN c ELSE EmptyDict]

\* the permutations of 1..n
Perms(n) == {f \in [1..n -> 1..n] : \A i, j \in 1..n : f[i] = f[j] => i = j}

\* DataFrame.sort_values(column, ascending=False) with the default, unstable
\* sort: every descending arrangement of the rows, rows of equal key in any order
SortValuesDesc(rows) ==
    { [i \in 1..Len(rows) |-> rows[f[i]]] :
        f \in { g \in Perms(Len(rows)) :
                  \A i, j \in 1..Len(rows) :
                      i < j => rows[g[i]].waiver_score >= rows[g[j]].waiver_score } }

\* what PlayerScorer.score_waiver_candidates returns: the sorted frame, or the
\* KeyError of sort_values on the column-less frame built from no rows
ScoreResults(settings, cands, weekly, proj, trending_players) ==
    LET scored_rows == [i \in 1..Len(cands) |->
                          ScoredRow(settings, cands[i], weekly, proj, trending_players)]
    IN  IF cands = <<>>
        THEN {[status |-> "KeyError"]}
        ELSE {[status |-> "ok", rows |-> r] : r \in SortValuesDesc(scored_rows)}

score_waiver_candidates ==
    /\ scored = NotCalled
    /\ scored' \in ScoreResults(scoring_settings, candidates, weekly_stats,
                                projections, trending_data)
    /\ UNCHANGED <<scoring_settings, candidates, weekly_stats, projections,
                   trending_data, scorerRet>>

(***************************************************************************)
(* Specification of the player scorer: the arguments are drawn from        *)
(* bounded sets, then score_waiver_candidates runs once.                   *)
(***************************************************************************)
MaxWeeks == 3

StatsMid == ("rec" :> 3) @@ ("rec_yd" :> 25)

\* the stat records a player may have in a week
WeekOptions == [p \in {"p1", "p2"} |->
                   IF p = "p1" THEN {StatsInt, StatsHigh} ELSE {StatsLow, StatsMid}]

\* weekly snapshots: any subset of the players, each with one of its records
WeekSnapshots ==
    UNION { {w \in [D -> StatRecords \cup {StatsMid}] :
                \A p \in D : w[p] \in WeekOptions[p]} :
            D \in SUBSET {"p1", "p2"} }

WeeklyStatsInputs == UNION {[1..n -> WeekSnapshots] : n \in 0..MaxWeeks}

CandidateP1 == [player_id |-> "p1", position |-> "RB"]
CandidateP2 == [player_id |-> "p2", position |-> "WR"]

CandidateInputs ==
    {<<>>, <<CandidateP1>>, <<CandidateP2>>, <<CandidateP1, CandidateP2>>,
     <<CandidateP2, CandidateP1>>}

ProjectionInputs == {EmptyDict, [p \in {"p1", "p2"} |-> StatsHigh]}

TrendingInputs == {{}, {"p1", "p2"}}

InitScorer ==
    /\ scoring_settings \in {StandardSettings, LeagueOdd}
    /\ candidates \in CandidateInputs
    /\ weekly_stats \in WeeklyStatsInputs
    /\ projections \in ProjectionInputs
    /\ trending_data \in TrendingInputs
    /\ scored = NotCalled
    /\ scorerRet = NotCalled
    /\ ManagerIdle
    /\ RankIdle
    /\ CacheIdle

NextScorer == score_waiver_candidates /\ UNCHANGED <<mgrVars, rankVars, cacheVars>>

SpecScorer == InitScorer /\ [][NextScorer]_vars

(***************************************************************************)
(* Claims about score_waiver_candidates (checked under SpecScorer)         *)
(***************************************************************************)
ScoredOk == scored # NotCalled /\ scored.status = "ok"

\* no weekly snapshot contains the player (also when there is no snapshot)
NoGames(player_id) ==
    \A i \in 1..Len(weekly_stats) : player_id \notin DOMAIN weekly_stats[i]

\* C5: every candidate that no weekly snapshot contains still gets an entry,
\* with waiver_score exactly 0 whatever its projection and trending status, and
\* the output has exactly one entry per input candidate (for a call with at
\* least one candidate, which returns a frame).
C5_ZeroGamesScoreZero ==
    (scored # NotCalled /\ candidates # <<>>) =>
        /\ scored.status = "ok"
        /\ Len(scored.rows) = Len(candidates)
        /\ \A i \in 1..Len(candidates) :
               \E j \in 1..Len(scored.rows) :
                   /\ scored.rows[j].player_id = candidates[i].player_id
                   /\ \A k \in 1..Len(scored.rows) :
                          scored.rows[k].player_id = candidates[i].player_id => k = j
                   /\ NoGames(candidates[i].player_id) =>
                          /\ scored.rows[j].games_played = 0
                          /\ scored.rows[j].waiver_score = 0

\* a trending candidate with a projection, absent from every one of the
\* snapshots, scored next to a candidate that played
C5_Witness ==
    /\ ScoredOk
    /\ weekly_stats # <<>>
    /\ \E j, k \in 1..Len(scored.rows) :
           /\ NoGames(scored.rows[j].player_id)
           /\ scored.rows[j].is_trending
           /\ scored.rows[j].player_id \in DOMAIN projections
           /\ scored.rows[j].waiver_score = 0
           /\ scored.rows[k].games_played > 0

\* C6: in the ordered output no candidate with games_played = 0 comes before a
\* candidate with games_played > 0.
C6_ZeroGamesSortLast ==
    ScoredOk =>
        \A i, j \in 1..Len(scored.rows) :
            (i < j /\ scored.rows[i].games_played = 0) =>
                scored.rows[j].games_played = 0

\* C8: for a candidate with games_played > 0, waiver_score = round(C * M, 2)
\* with C = recent_avg*0.35 + avg_points*0.20 + projected*0.25
\* + consistency*10*0.10 + (5 if trending else 0)*0.10 and
\* M = 1 + min(trend*0.1, 0.3) when trend > 0, M = 1 otherwise; M lies in
\* [1, 1.3] and is 1 for a zero or negative trend.
C8_WaiverScoreFormula ==
    ScoredOk =>
        \A j \in 1..Len(scored.rows) :
            LET r == scored.rows[j]
                pf == analyze_player_performance(scoring_settings, r.player_id,
                                                 weekly_stats, projections)
                C == pf.recent_avg * 35 + pf.avg_points * 20 + pf.projected * 25
                       + pf.consistency * 100
                       + (IF r.player_id \in trending_data THEN 5000 ELSE 0)
                M == IF pf.trend > 0
                     THEN 1000 + (IF pf.trend < 300 THEN pf.trend ELSE 300)
                     ELSE 1000
            IN  pf.games_played > 0 =>
                    /\ r.waiver_score = RoundHalfEven(C * M, 100000)
                    /\ M >= 1000 /\ M <= 1300
                    /\ pf.trend <= 0 => RoundHalfEven(C, 100) = r.waiver_score

\* one candidate with a capped bonus (trend > 3), one with an uncapped bonus
C8_Witness ==
    /\ ScoredOk
    /\ \E j, k \in 1..Len(scored.rows) :
           /\ scored.rows[j].trend > 300
           /\ scored.rows[j].waiver_score > 0
           /\ scored.rows[k].trend > 0
           /\ scored.rows[k].trend < 300
           /\ scored.rows[k].waiver_score > 0

\* C18: a candidate whose points history has fewer than 3 entries has trend
\* exactly 0, and its waiver_score is the rounded weighted sum without the
\* positive-trend multiplier.
C18_ShortHistoryNoTrend ==
    ScoredOk =>
        \A j \in 1..Len(scored.rows) :
            LET r == scored.rows[j]
                games == Cardinality({i \in 1..Len(weekly_stats) :
                                         r.player_id \in DOMAIN weekly_stats[i]})
                pf == analyze_player_performance(scoring_settings, r.player_id,
                                                 weekly_stats, projections)
                C == pf.recent_avg * 35 + pf.avg_points * 20 + pf.projected * 25
                       + pf.consistency * 100
                       + (IF r.player_id \in trending_data THEN 5000 ELSE 0)
            IN  games < 3 =>
                    /\ r.games_played = games
                    /\ r.trend = 0
                    /\ pf.trend = 0
                    /\ games > 0 => r.waiver_score = RoundHalfEven(C, 100)
                    /\ games = 0 => r.waiver_score = 0

\* p1 with two games, the second better than the first (-2 then 13.5 points
\* under standard scoring), scored above 0
C18_Witness ==
    /\ ScoredOk
    /\ scoring_settings = StandardSettings
    /\ \E j \in 1..Len(scored.rows) :
           /\ scored.rows[j].player_id = "p1"
           /\ scored.rows[j].games_played = 2
           /\ PointsHistory(scoring_settings, "p1", weekly_stats) = <<-200, 1350>>
           /\ scored.rows[j].trend = 0
           /\ scored.rows[j].waiver_score > 0

(***************************************************************************)
(* LeagueAnalyzer.analyze_roster_needs                                     *)
(***************************************************************************)
Range(seq) == {seq[i] : i \in 1..Len(seq)}

\* ideal_roster, in the order of the dict literal
ideal_roster ==
    << <<"QB", 2>>, <<"RB", 5>>, <<"WR", 5>>, <<"TE", 2>>, <<"K", 1>>, <<"DEF", 1>> >>

\* the position of a rostered id that counts: in all_players, position not None
CountedPosition(players, player_id) ==
    IF player_id \in DOMAIN players /\ players[player_id].position # None
    THEN players[player_id].position
    ELSE None

\* position_players: per position seen, the roster's players there, in order
PositionPlayers(players, player_ids) ==
    [pos \in {CountedPosition(players, player_ids[i]) : i \in 1..Len(player_ids)}
                \ {None} |->
        SelectSeq(player_ids, LAMBDA id : CountedPosition(players, id) = pos)]

\* position_counts: per position seen, how many of the roster's players
PositionCounts(players, player_ids) ==
    [pos \in DOMAIN PositionPlayers(players, player_ids) |->
        Len(PositionPlayers(players, player_ids)[pos])]

\* faulty variant of NeedsStep: the tiers are tested one after the other ("if"
\* for "elif") and moderate with ">=" for "=="
NeedsStep_Overlap(needs, pos, ideal_count, current_count) ==
    LET deficit == ideal_count - current_count
        n1 == IF deficit > 1
              THEN [needs EXCEPT !.critical = Append(@, pos)] ELSE needs
        n2 == IF deficit >= 1
              THEN [n1 EXCEPT !.moderate = Append(@, pos)] ELSE n1
    IN  IF deficit = 0 /\ pos \in {"RB", "WR"}
        THEN [n2 EXCEPT !.depth = Append(@, pos)] ELSE n2

\* one pass of the loop over ideal_roster
NeedsStep(needs, pos, ideal_count, current_count) ==
    LET deficit == ideal_count - current_count
    IN  IF deficit > 1 THEN [needs EXCEPT !.critical = Append(@, pos)]
        ELSE IF deficit = 1 THEN [needs EXCEPT !.moderate = Append(@, pos)]
        ELSE IF deficit = 0 /\ pos \in {"RB", "WR"}
        THEN [needs EXCEPT !.depth = Append(@, pos)]
        ELSE needs

\* needs after the first k entries of ideal_roster
RECURSIVE NeedsAfter(_, _)
NeedsAfter(position_counts, k) ==
    IF k = 0 THEN [critical |-> <<>>, moderate |-> <<>>, depth |-> <<>>]
    ELSE NeedsStep(NeedsAfter(position_counts, k - 1),
                   ideal_roster[k][1], ideal_roster[k][2],
                   Get(position_counts, ideal_roster[k][1], 0))

\* what LeagueAnalyzer.analyze_roster_needs returns: {} for an unknown user
RosterNeeds(players, rosters, user) ==
    IF user \notin DOMAIN rosters THEN EmptyDict
    ELSE LET player_ids == rosters[user].players
             position_counts == PositionCounts(players, player_ids)
         IN  [needs |-> NeedsAfter(position_counts, Len(ideal_roster)),
              position_counts |-> position_counts,
              position_players |-> PositionPlayers(players, player_ids)]

analyze_roster_needs ==
    /\ needsRet = NotCalled
    /\ needsRet' = [status |-> "ok",
                    value |-> RosterNeeds(all_players, roster_by_user, user_id)]
    /\ UNCHANGED <<all_players, roster_by_user, user_id, scored_players, top_n,
                   position_filter, recommendations>>

(***************************************************************************)
(* Specification of the roster analysis: a roster is drawn, then           *)
(* analyze_roster_needs runs once.                                         *)
(***************************************************************************)
\* how many players beyond the ideal count a drawn roster may hold per position
MaxSurplus == 1

TrackedPositions == {ideal_roster[i][1] : i \in 1..Len(ideal_roster)}

IdealCount(pos) == ideal_roster[CHOOSE i \in 1..Len(ideal_roster) : ideal_roster[i][1] = pos][2]

\* the player directory: ids <<position, k>>, an untracked position, a player
\* whose position is None
Directory ==
    [id \in ((TrackedPositions \cup {"LB"}) \X (1..(5 + MaxSurplus))) \cup {<<None, 1>>}
        |-> [position |-> id[1]]]

\* the roster holding counts[pos] players of each tracked position
RECURSIVE RosterOfCounts(_, _)
RosterOfCounts(counts, k) ==
    IF k = 0 THEN <<>>
    ELSE RosterOfCounts(counts, k - 1)
           \o [i \in 1..counts[ideal_roster[k][1]] |-> <<ideal_roster[k][1], i>>]

\* players that count for no tracked position: a linebacker, a player without a
\* position and an id missing from the directory
ExtraPlayers == << <<"LB", 1>>, <<None, 1>>, <<"gone", 1>> >>

RosterInputs ==
    { extra \o RosterOfCounts(counts, Len(ideal_roster)) :
        counts \in {c \in [TrackedPositions -> 0..(5 + MaxSurplus)] :
                       \A pos \in TrackedPositions : c[pos] <= IdealCount(pos) + MaxSurplus},
        extra \in {<<>>, ExtraPlayers} }

InitNeeds ==
    /\ all_players = Directory
    /\ \E r \in RosterInputs : roster_by_user = [u \in {"u1"} |-> [players |-> r]]
    /\ user_id = "u1"
    /\ scored_players = <<>>
    /\ top_n = 0
    /\ position_filter = None
    /\ needsRet = NotCalled
    /\ recommendations = NotCalled
    /\ ManagerIdle
    /\ ScorerIdle
    /\ CacheIdle

NextNeeds == analyze_roster_needs /\ UNCHANGED <<mgrVars, scorerVars, cacheVars>>

SpecNeeds == InitNeeds /\ [][NextNeeds]_vars

\* how many of the user's rostered players the directory places at pos
RosterCount(pos) ==
    Cardinality({i \in 1..Len(roster_by_user[user_id].players) :
                    LET id == roster_by_user[user_id].players[i]
                    IN  id \in DOMAIN all_players /\ all_players[id].position = pos})

Deficit(pos) == IdealCount(pos) - RosterCount(pos)

\* how often pos occurs in a tier list
Occurrences(seq, pos) == Cardinality({i \in 1..Len(seq) : seq[i] = pos})

NeedsOk == needsRet # NotCalled /\ user_id \in DOMAIN roster_by_user

\* C9: each of the six tracked positions (ideal QB 2, RB 5, WR 5, TE 2, K 1,
\* DEF 1) is classified by deficit = ideal - current: > 1 critical, = 1
\* moderate, = 0 and RB or WR depth, otherwise no tier; a position is in at
\* most one tier list, at most once, and only tracked positions are listed.
C9_NeedTiers ==
    NeedsOk =>
        LET needs == needsRet.value.needs
        IN  /\ ideal_roster = << <<"QB", 2>>, <<"RB", 5>>, <<"WR", 5>>,
                                 <<"TE", 2>>, <<"K", 1>>, <<"DEF", 1>> >>
            /\ \A pos \in TrackedPositions :
                   /\ pos \in Range(needs.critical) <=> Deficit(pos) > 1
                   /\ pos \in Range(needs.moderate) <=> Deficit(pos) = 1
                   /\ pos \in Range(needs.depth) <=>
                          (Deficit(pos) = 0 /\ pos \in {"RB", "WR"})
                   /\ Occurrences(needs.critical, pos) + Occurrences(needs.moderate, pos)
                          + Occurrences(needs.depth, pos) <= 1
            /\ Range(needs.critical) \cup Range(needs.moderate) \cup Range(needs.depth)
                   \subseteq TrackedPositions

\* a roster with untracked players and all four outcomes: critical, moderate,
\* depth, and no tier both for a surplus and for a filled non-RB/WR position
C9_Witness ==
    /\ NeedsOk
    /\ <<"LB", 1>> \in Range(roster_by_user[user_id].players)
    /\ needsRet.value.needs.critical = <<"QB">>
    /\ needsRet.value.needs.moderate = <<"RB">>
    /\ needsRet.value.needs.depth = <<"WR">>
    /\ Deficit("TE") = 0
    /\ Deficit("K") < 0

(***************************************************************************)
(* WaiverRecommender.generate_recommendations.  adjusted_score is in       *)
(* thousandths of a point.                                                 *)
(***************************************************************************)
\* priority_boost, in tenths
priority_boost == [critical |-> 15, moderate |-> 12, depth |-> 10]

\* the first tier, in the order of needs.items(), whose list holds the position
NeedLevelOf(needs, position) ==
    IF position \in Range(needs.critical) THEN "critical"
    ELSE IF position \in Range(needs.moderate) THEN "moderate"
    ELSE IF position \in Range(needs.depth) THEN "depth"
    ELSE "luxury"

\* faulty variant of AdjustRow: a moderate need is boosted like a critical one
AdjustRow_ModerateAsCritical(needs, player) ==
    LET need_level == NeedLevelOf(needs, player.position)
    IN  [player_id |-> player.player_id,
         position |-> player.position,
         waiver_score |-> player.waiver_score,
         need_level |-> need_level,
         adjusted_score |->
             IF need_level = "luxury" THEN player.waiver_score * 10
             ELSE IF need_level = "moderate" THEN player.waiver_score * 15
             ELSE player.waiver_score * priority_boost[need_level]]

\* the body of the loop over filtered.iterrows()
AdjustRow(needs, player) ==
    LET need_level == NeedLevelOf(needs, player.position)
    IN  [player_id |-> player.player_id,
         position |-> player.position,
         waiver_score |-> player.waiver_score,
         need_level |-> need_level,
         adjusted_score |->
             IF need_level = "luxury" THEN player.waiver_score * 10
             ELSE player.waiver_score * priority_boost[need_level]]

\* the n rows of largest adjusted_score, descending, rows of equal score in
\* their order in rows
NLargestFirst(rows, n) ==
    LET N == Len(rows)
        \* how many rows come before row i in the result
        rank(i) == Cardinality({j \in 1..N :
                       \/ rows[j].adjusted_score > rows[i].adjusted_score
                       \/ rows[j].adjusted_score = rows[i].adjusted_score /\ j < i})
    IN  [k \in 1..Min(n, N) |-> rows[CHOOSE i \in 1..N : rank(i) = k - 1]]

\* Series.sort_values(ascending=False) with the default, unstable sort: every
\* descending arrangement of the rows by adjusted_score
SortAdjustedDesc(rows) ==
    { [i \in 1..Len(rows) |-> rows[f[i]]] :
        f \in { g \in Perms(Len(rows)) :
                  \A i, j \in 1..Len(rows) :
                      i < j => rows[g[i]].adjusted_score >= rows[g[j]].adjusted_score } }

\* DataFrame.nlargest(n, "adjusted_score"), keep="first": the frames it may
\* return.  For n < len(rows) pandas selects with a stable (mergesort) pass, so
\* ties keep their input order; for n >= len(rows) it returns
\* sort_values(ascending=False).head(n), whose default sort is not stable.
NLargest(rows, n) ==
    IF n <= 0 THEN {<<>>}
    ELSE IF n >= Len(rows) THEN SortAdjustedDesc(rows)
    ELSE {NLargestFirst(rows, n)}

\* faulty variant of FilterByPosition: a row passes when its position is the
\* filter or it is a back (RB) or receiver (WR, TE) like the filter
FilterByPosition_Group(rows, filter) ==
    LET group(pos) == IF pos \in {"RB", "WR", "TE"} THEN "flex" ELSE pos
    IN  IF filter # None
        THEN SelectSeq(rows, LAMBDA player : group(player.position) = group(filter))
        ELSE rows

\* filtered: scored_players[scored_players['position'] == position_filter], or
\* a copy of the frame when no filter is given
FilterByPosition(rows, filter) ==
    IF filter # None
    THEN SelectSeq(rows, LAMBDA player : player.position = filter)
    ELSE rows

\* what generate_recommendations may return or raise
Recommend(players, rosters, user, rows, n, filter) ==
    LET roster_analysis == RosterNeeds(players, rosters, user)
        filtered == FilterByPosition(rows, filter)
    IN  IF "needs" \notin DOMAIN roster_analysis
        THEN {[status |-> "KeyError", key |-> "needs"]}
        ELSE IF filtered = <<>>
        THEN {[status |-> "KeyError", key |-> "adjusted_score"]}
        ELSE {[status |-> "ok", rows |-> r] :
                 r \in NLargest([i \in 1..Len(filtered) |->
                                    AdjustRow(roster_analysis.needs, filtered[i])], n)}

generate_recommendations ==
    /\ recommendations = NotCalled
    /\ recommendations' \in Recommend(all_players, roster_by_user, user_id,
                                       scored_players, top_n, position_filter)
    /\ UNCHANGED <<all_players, roster_by_user, user_id, scored_players, top_n,
                   position_filter, needsRet>>

(***************************************************************************)
(* Specification of the recommender: a league, a scored frame and the      *)
(* arguments are drawn, then analyze_roster_needs and                      *)
(* generate_recommendations run once each.                                 *)
(***************************************************************************)
MaxPool == 3

MaxTop == 3

\* rosters of the target user: QB critical, RB moderate, WR depth, TE filled;
\* and a roster missing one TE with everything else filled or over
RankRosters ==
    { RosterOfCounts([pos \in TrackedPositions |->
                         CASE pos = "QB" -> 0 [] pos = "RB" -> 4
                           [] pos = "WR" -> 5 [] pos = "TE" -> 2
                           [] OTHER -> 1], Len(ideal_roster)),
      ExtraPlayers \o
      RosterOfCounts([pos \in TrackedPositions |->
                         CASE pos = "QB" -> 2 [] pos = "RB" -> 6
                           [] pos = "WR" -> 5 [] pos = "TE" -> 1
                           [] OTHER -> 1], Len(ideal_roster)) }

PoolPositions == {"QB", "RB", "WR", "LB"}

PoolScores == {-82, 0, 1000}

\* scored frames as score_waiver_candidates returns them: at least one row (it
\* raises when there is none), rows in descending order of waiver_score;
\* player_id is the place in the frame
PoolInputs ==
    UNION { { [i \in 1..n |-> [player_id |-> i, position |-> ps[i],
                                waiver_score |-> ws[i]]] :
                ps \in [1..n -> PoolPositions],
                ws \in {w \in [1..n -> PoolScores] :
                           \A i, j \in 1..n : i < j => w[i] >= w[j]} } :
            n \in 1..MaxPool }

InitRank ==
    /\ all_players = Directory
    /\ \E r \in RankRosters : roster_by_user = [u \in {"u1"} |-> [players |-> r]]
    /\ user_id \in {"u1", "u2"}
    /\ scored_players \in PoolInputs
    /\ top_n \in 0..MaxTop
    /\ position_filter \in {None, "RB", "K"}
    /\ needsRet = NotCalled
    /\ recommendations = NotCalled
    /\ ManagerIdle
    /\ ScorerIdle
    /\ CacheIdle

NextRank ==
    /\ UNCHANGED <<mgrVars, scorerVars, cacheVars>>
    /\ \/ analyze_roster_needs
       \/ generate_recommendations

SpecRank == InitRank /\ [][NextRank]_vars

(***************************************************************************)
(* Claims about generate_recommendations (checked under SpecRank)          *)
(***************************************************************************)
\* the rows of scored_players the position filter lets through
Pool == IF position_filter # None
        THEN SelectSeq(scored_players, LAMBDA player : player.position = position_filter)
        ELSE scored_players

Called == recommendations # NotCalled

RecsOk == Called /\ recommendations.status = "ok"

HasRoster == user_id \in DOMAIN roster_by_user

\* C7: with top_n at least the size of the (position-filtered) pool,
\* generate_recommendations raises no error and returns the whole pool, also
\* when the pool is empty.
C7_TopNAtLeastPool ==
    (Called /\ HasRoster /\ top_n >= Len(Pool)) =>
        /\ recommendations.status = "ok"
        /\ Len(recommendations.rows) = Len(Pool)
        /\ {recommendations.rows[i].player_id : i \in 1..Len(recommendations.rows)}
               = {Pool[i].player_id : i \in 1..Len(Pool)}

\* the tier the target roster gives a position, from its deficit
TierOf(position) ==
    IF position \notin TrackedPositions THEN "luxury"
    ELSE IF Deficit(position) > 1 THEN "critical"
    ELSE IF Deficit(position) = 1 THEN "moderate"
    ELSE IF Deficit(position) = 0 /\ position \in {"RB", "WR"} THEN "depth"
    ELSE "luxury"

\* C10: every recommendation carries the tier of its position on the target
\* roster as need_level, and adjusted_score is waiver_score times 1.5 for
\* critical, 1.2 for moderate, 1.0 for depth and 1.0 for luxury (no tier),
\* applied once; each recommendation is one row of the pool.
C10_NeedBoost ==
    RecsOk =>
        \A i \in 1..Len(recommendations.rows) :
            LET r == recommendations.rows[i]
                factor == CASE TierOf(r.position) = "critical" -> 15
                            [] TierOf(r.position) = "moderate" -> 12
                            [] OTHER -> 10
            IN  /\ r.need_level = TierOf(r.position)
                /\ r.adjusted_score = r.waiver_score * factor
                /\ \E j \in 1..Len(Pool) :
                       /\ Pool[j].player_id = r.player_id
                       /\ Pool[j].position = r.position
                       /\ Pool[j].waiver_score = r.waiver_score
                /\ \A k \in 1..Len(recommendations.rows) :
                       recommendations.rows[k].player_id = r.player_id => k = i

\* waiver_score 10 boosted to 15 at a critical position and to 12 at a
\* moderate one in the same call
C10_Witness ==
    /\ RecsOk
    /\ \E i, j \in 1..Len(recommendations.rows) :
           /\ recommendations.rows[i].need_level = "critical"
           /\ recommendations.rows[i].waiver_score = 1000
           /\ recommendations.rows[i].adjusted_score = 15000
           /\ recommendations.rows[j].need_level = "moderate"
           /\ recommendations.rows[j].waiver_score = 1000
           /\ recommendations.rows[j].adjusted_score = 12000

\* the factor, in tenths, the target roster's tier gives a position
BoostOf(position) ==
    CASE TierOf(position) = "critical" -> 15
      [] TierOf(position) = "moderate" -> 12
      [] OTHER -> 10

\* the pool rows that are not among the recommendations
NotSelected ==
    {j \in 1..Len(Pool) :
        \A i \in 1..Len(recommendations.rows) :
            recommendations.rows[i].player_id # Pool[j].player_id}

\* C11: generate_recommendations returns exactly min(top_n, pool size)
\* candidates, those of highest adjusted_score, in descending order of
\* adjusted_score; among candidates of equal adjusted_score the one earlier in
\* the input is selected first and listed first.
C11_TopNStable ==
    RecsOk =>
        LET rows == recommendations.rows
        IN  /\ Len(rows) = Min(top_n, Len(Pool))
            /\ \A i, k \in 1..Len(rows) :
                   i < k =>
                       /\ rows[i].adjusted_score >= rows[k].adjusted_score
                       /\ rows[i].adjusted_score = rows[k].adjusted_score =>
                              rows[i].player_id < rows[k].player_id
            /\ \A i \in 1..Len(rows) : \A j \in NotSelected :
                   LET other == Pool[j].waiver_score * BoostOf(Pool[j].position)
                   IN  /\ other <= rows[i].adjusted_score
                       /\ other = rows[i].adjusted_score =>
                              rows[i].player_id < Pool[j].player_id

\* C12: with a position_filter, every recommendation is a row of the scored
\* frame whose position column equals the filter (the only position data the
\* frame carries), all such rows up to top_n are returned, and the returned
\* rows are in descending order of waiver_score.
C12_PositionFilter ==
    (RecsOk /\ position_filter # None) =>
        LET rows == recommendations.rows
            exact == {j \in 1..Len(scored_players) :
                         scored_players[j].position = position_filter}
        IN  /\ \A i \in 1..Len(rows) :
                   /\ rows[i].position = position_filter
                   /\ \E j \in exact : scored_players[j].player_id = rows[i].player_id
            /\ Len(rows) = Min(top_n, Cardinality(exact))
            /\ \A i, k \in 1..Len(rows) :
                   i < k => rows[i].waiver_score >= rows[k].waiver_score

\* a frame led by a receiver, filtered to RB: the two backs are returned, the
\* better one first
C12_Witness ==
    /\ RecsOk
    /\ position_filter = "RB"
    /\ Len(scored_players) = 3
    /\ scored_players[1].position = "WR"
    /\ Len(recommendations.rows) = 2
    /\ recommendations.rows[1].waiver_score > recommendations.rows[2].waiver_score
    /\ recommendations.rows[1].need_level = "moderate"

\* C20: the need boost never lowers a score: every recommendation has
\* adjusted_score >= waiver_score, and of two recommendations with the same
\* waiver_score the one at a critical or moderate need position does not have
\* the lower adjusted_score and is not listed after the one at a depth or
\* luxury position with a lower adjusted_score; negative scores included.
C20_BoostNeverLowers ==
    RecsOk =>
        LET rows == recommendations.rows
        IN  /\ \A i \in 1..Len(rows) :
                   rows[i].adjusted_score >= rows[i].waiver_score * 10
            /\ \A i, k \in 1..Len(rows) :
                   (/\ rows[i].waiver_score = rows[k].waiver_score
                    /\ rows[i].need_level \in {"critical", "moderate"}
                    /\ rows[k].need_level \in {"depth", "luxury"}) =>
                       /\ rows[i].adjusted_score >= rows[k].adjusted_score
                       /\ rows[i].adjusted_score # rows[k].adjusted_score => i < k

\* C21: for a user_id that owns no roster, analyze_roster_needs returns
\* without raising, and generate_recommendations completes without raising
\* and treats every position as luxury (adjusted_score = waiver_score for
\* every candidate).
C21_NoRosterUser ==
    ~HasRoster =>
        /\ needsRet # NotCalled => needsRet.status = "ok"
        /\ Called =>
               /\ recommendations.status = "ok"
               /\ \A i \in 1..Len(recommendations.rows) :
                      /\ recommendations.rows[i].need_level = "luxury"
                      /\ recommendations.rows[i].adjusted_score
                             = recommendations.rows[i].waiver_score * 10

(***************************************************************************)
(* Direct calls of PlayerScorer.calculate_fantasy_points and               *)
(* PlayerScorer.analyze_player_performance                                 *)
(***************************************************************************)
CallCalculateFantasyPoints(stats) ==
    /\ scorerRet' = [op |-> "calculate_fantasy_points",
                     args |-> [stats |-> stats],
                     raised |-> None,
                     value |-> calculate_fantasy_points(scoring_settings, stats)]
    /\ UNCHANGED <<scoring_settings, candidates, weekly_stats, projections,
                   trending_data, scored>>

CallAnalyzePlayerPerformance(player_id) ==
    /\ scorerRet' = [op |-> "analyze_player_performance",
                     args |-> [player_id |-> player_id],
                     raised |-> None,
                     value |-> analyze_player_performance(scoring_settings, player_id,
                                                          weekly_stats, projections)]
    /\ UNCHANGED <<scoring_settings, candidates, weekly_stats, projections,
                   trending_data, scored>>

(***************************************************************************)
(* Specification of the performance profile: a scoring table, a window of  *)
(* weekly snapshots and a projection snapshot are drawn, then one of the   *)
(* two methods is called.                                                  *)
(***************************************************************************)
MaxGames == 4

\* receiving lines of 100 to 400 yards: 10, 20, 30, 40 points at 0.1 a yard
YardRecords == {("rec_yd" :> 100 * k) : k \in 1..4}

\* a rushing line, and a key ("gp") that stat_mappings does not know
StatsRush == ("rush_yd" :> 50) @@ ("rush_td" :> 1) @@ ("rec" :> 1) @@ ("gp" :> 1)

\* a week of the window: p2 always has a record, p1 has one or is missing
ProfileSnapshots ==
    {("p2" :> StatsLow)}
        \cup {("p1" :> st) @@ ("p2" :> StatsLow) : st \in YardRecords \cup {StatsInt}}

ProfileWeeklyInputs == UNION {[1..n -> ProfileSnapshots] : n \in 0..MaxGames}

\* p9 is in no snapshot
ProfileProjectionInputs == {EmptyDict, [p \in {"p1", "p9"} |-> StatsHigh]}

ProfilePlayers == {"p1", "p2", "p9"}

CalcInputs == StatRecords \cup {StatsRush, EmptyDict}

InitProfile ==
    /\ scoring_settings \in {StandardSettings, LeagueOdd}
    /\ candidates = <<>>
    /\ weekly_stats \in ProfileWeeklyInputs
    /\ projections \in ProfileProjectionInputs
    /\ trending_data = {}
    /\ scored = NotCalled
    /\ scorerRet = NotCalled
    /\ ManagerIdle
    /\ RankIdle
    /\ CacheIdle

NextProfile ==
    /\ UNCHANGED <<mgrVars, rankVars, cacheVars>>
    /\ scorerRet = NotCalled
    /\ \/ \E st \in CalcInputs : CallCalculateFantasyPoints(st)
       \/ \E p \in ProfilePlayers : CallAnalyzePlayerPerformance(p)

SpecProfile == InitProfile /\ [][NextProfile]_vars

(***************************************************************************)
(* Claims about the performance profile (checked under SpecProfile)        *)
(***************************************************************************)
IsCalc == scorerRet # NotCalled /\ scorerRet.op = "calculate_fantasy_points"

IsProfile == scorerRet # NotCalled /\ scorerRet.op = "analyze_player_performance"

\* the places in the window of the snapshots that contain the player, ascending
Containing(player_id) ==
    SelectSeq([i \in 1..Len(weekly_stats) |-> i],
              LAMBDA i : player_id \in DOMAIN weekly_stats[i])

\* C13: the points history has exactly one entry for each weekly snapshot that
\* contains the player, in snapshot order, and none for a snapshot that lacks
\* the player; games_played is the length of that history and never exceeds
\* the number of snapshots supplied.
C13_PointsHistory ==
    IsProfile =>
        LET player_id == scorerRet.args.player_id
            profile == scorerRet.value
            idx == Containing(player_id)
        IN  /\ profile.games_played = Len(idx)
            /\ profile.games_played <= Len(weekly_stats)
            /\ Len(idx) > 0 =>
                   /\ Len(profile.points_history) = profile.games_played
                   /\ \A k \in 1..Len(idx) :
                          profile.points_history[k] =
                              calculate_fantasy_points(scoring_settings,
                                                       weekly_stats[idx[k]][player_id])

\* a window of three weeks whose middle snapshot lacks p1: two entries, 10 and
\* 30 points
C13_Witness ==
    /\ IsProfile
    /\ scorerRet.args.player_id = "p1"
    /\ Len(weekly_stats) = 3
    /\ Containing("p1") = <<1, 3>>
    /\ scorerRet.value.games_played = 2
    /\ scorerRet.value.points_history = <<1000, 3000>>

\* C16: when no snapshot contains the player, or the window is empty, the call
\* raises nothing and returns avg_points, recent_avg, projected, consistency,
\* trend and games_played all 0, also when the projection snapshot has a
\* record for the player.
C16_ZeroProfile ==
    (IsProfile /\ NoGames(scorerRet.args.player_id)) =>
        /\ scorerRet.raised = None
        /\ scorerRet.value.avg_points = 0
        /\ scorerRet.value.recent_avg = 0
        /\ scorerRet.value.projected = 0
        /\ scorerRet.value.consistency = 0
        /\ scorerRet.value.trend = 0
        /\ scorerRet.value.games_played = 0

\* p1 is missing from each snapshot of a non-empty window and has a projection
\* worth points
C16_Witness ==
    /\ IsProfile
    /\ scorerRet.args.player_id = "p1"
    /\ Len(weekly_stats) >= 2
    /\ NoGames("p1")
    /\ "p1" \in DOMAIN projections
    /\ calculate_fantasy_points(scoring_settings, projections["p1"]) > 0
    /\ scorerRet.value.projected = 0
    /\ scorerRet.value.games_played = 0

\* C17: for a non-empty history, recent_avg is the mean of its last
\* min(3, games_played) entries and avg_points the mean of all of them, each
\* rounded to 2 decimals; the history 10, 20, 30, 40 gives 30.0 and 25.0.
C17_RecentAndSeasonAverage ==
    (IsProfile /\ scorerRet.value.games_played > 0) =>
        LET h == scorerRet.value.points_history
            n == Len(h)
            m == IF n < 3 THEN n ELSE 3
            last == [i \in 1..m |-> h[n - m + i]]
        IN  /\ n = scorerRet.value.games_played
            /\ scorerRet.value.recent_avg = RoundHalfEven(SumSeq(last), m)
            /\ scorerRet.value.avg_points = RoundHalfEven(SumSeq(h), n)
            /\ h = <<1000, 2000, 3000, 4000>> =>
                   /\ scorerRet.value.recent_avg = 3000
                   /\ scorerRet.value.avg_points = 2500

C17_Witness ==
    /\ IsProfile
    /\ scorerRet.value.games_played = 4
    /\ scorerRet.value.points_history = <<1000, 2000, 3000, 4000>>
    /\ scorerRet.value.recent_avg = 3000
    /\ scorerRet.value.avg_points = 2500

\* C14: calculate_fantasy_points returns, rounded to 2 decimals, the sum over
\* the stat categories present both in the record and in the scoring table of
\* stat value times coefficient; a category missing from either side adds 0,
\* and multiplying one stat value by k, the others fixed, multiplies that
\* category's contribution by k.
C14_PointsLinear ==
    IsCalc =>
        LET stats == scorerRet.args.stats
            term(i, st) ==
                IF stat_mappings[i][1] \in DOMAIN st
                   /\ stat_mappings[i][2] \in DOMAIN scoring_settings
                THEN st[stat_mappings[i][1]] * scoring_settings[stat_mappings[i][2]]
                ELSE 0
            total == SumSeq([i \in 1..Len(stat_mappings) |-> term(i, stats)])
        IN  /\ scorerRet.value = RoundHalfEven(total, 10)
            /\ \A i \in 1..Len(stat_mappings) : \A k \in 0..3 :
                   stat_mappings[i][1] \in DOMAIN stats =>
                       LET scaled == [stats EXCEPT ![stat_mappings[i][1]] = k * @]
                       IN  /\ FantasyPointsSum(scoring_settings, scaled)
                                  = total + (k - 1) * term(i, stats)
                           /\ calculate_fantasy_points(scoring_settings, scaled)
                                  = RoundHalfEven(total + (k - 1) * term(i, stats), 10)

\* a record with rushing stats and an unknown key scored by a table without
\* rushing coefficients: only the reception counts, 0.25 points
C14_Witness ==
    /\ IsCalc
    /\ scorerRet.args.stats = StatsRush
    /\ scoring_settings = LeagueOdd
    /\ scorerRet.value = 25

(***************************************************************************)
(* SleeperClient: the disk cache in front of the Sleeper API.  Time is in  *)
(* minutes; the payload of a response is identified by its endpoint and    *)
(* the time it was fetched.                                                *)
(***************************************************************************)
\* timedelta(hours=cache_hours), in minutes
Hours(h) == 60 * h

\* the branches of SleeperClient._get_cached_or_fetch; request_ok is whether
\* _make_request gets a response (it returns None on a request error)
get_cached_or_fetch(op, endpoint, cache_key, cache_hours, request_ok) ==
    LET cached == cache_key \in DOMAIN cache
        age == IF cached THEN now - cache[cache_key].timestamp ELSE -1
        data == [endpoint |-> endpoint, fetched |-> now]
    IN  /\ advances' = advances
        /\ now' = now
        /\ IF cached /\ age < Hours(cache_hours)
           THEN /\ cacheRet' = [op |-> op, cache_key |-> cache_key, served |-> "cache",
                                age |-> age, value |-> cache[cache_key].data]
                /\ cache' = cache
           ELSE IF request_ok
           THEN /\ cacheRet' = [op |-> op, cache_key |-> cache_key, served |-> "fetch",
                                age |-> age, value |-> data]
                /\ cache' = [k \in DOMAIN cache \cup {cache_key} |->
                                IF k = cache_key
                                THEN [data |-> data, timestamp |-> now]
                                ELSE cache[k]]
           ELSE /\ cacheRet' = [op |-> op, cache_key |-> cache_key, served |-> "fetch",
                                age |-> age, value |-> None]
                /\ cache' = cache

get_league(league_id, request_ok) ==
    get_cached_or_fetch("get_league", <<"/league", league_id>>,
                        <<"league", league_id>>, 24, request_ok)

get_rosters(league_id, request_ok) ==
    get_cached_or_fetch("get_rosters", <<"/league", league_id, "rosters">>,
                        <<"rosters", league_id>>, 1, request_ok)

get_all_players(request_ok) ==
    get_cached_or_fetch("get_all_players", <<"/players/nfl">>,
                        <<"all_players">>, 168, request_ok)

clear_cache ==
    /\ cache' = EmptyDict
    /\ cacheRet' = [op |-> "clear_cache", cache_key |-> None, served |-> None,
                    age |-> -1, value |-> None]
    /\ UNCHANGED <<now, advances>>

\* how often the clock is advanced in a behaviour
MaxAdvances == 3

\* half an hour, an hour, 23 hours, 6 days
AdvanceSteps == {30, Hours(1), Hours(23), Hours(144)}

\* time passes between two calls
Advance(minutes) ==
    /\ advances < MaxAdvances
    /\ now' = now + minutes
    /\ advances' = advances + 1
    /\ UNCHANGED <<cache, cacheRet>>

InitCache ==
    /\ now = 0
    /\ advances = 0
    /\ cache = EmptyDict
    /\ cacheRet = NotCalled
    /\ ManagerIdle
    /\ ScorerIdle
    /\ RankIdle

NextCache ==
    /\ UNCHANGED <<mgrVars, scorerVars, rankVars>>
    /\ \/ \E ok \in BOOLEAN : get_league("L1", ok)
       \/ \E ok \in BOOLEAN : get_rosters("L1", ok)
       \/ \E ok \in BOOLEAN : get_all_players(ok)
       \/ clear_cache
       \/ \E m \in AdvanceSteps : Advance(m)

SpecCache == InitCache /\ [][NextCache]_vars

(***************************************************************************)
(* Claims about the cache (checked under SpecCache)                        *)
(***************************************************************************)
\* C19: a cached player directory (get_all_players) is not served once it is
\* 24 hours old or older, and cached roster data (get_rosters) is not served
\* once it is 1 hour old or older; the data is fetched afresh instead.
C19_CacheExpiry ==
    (cacheRet # NotCalled /\ cacheRet.op \in {"get_all_players", "get_rosters"}) =>
        LET limit == IF cacheRet.op = "get_all_players" THEN Hours(24) ELSE Hours(1)
        IN  /\ cacheRet.served \in {"cache", "fetch"}
            /\ cacheRet.served = "cache" => (cacheRet.age >= 0 /\ cacheRet.age < limit)
            /\ (cacheRet.age >= limit) => cacheRet.served = "fetch"
=============================================================================
